---- MODULE Spec2Model ----
(***************************************************************************)
(* The in-memory shop of src/modules/db.py: the product catalog with its   *)
(* SKU index, the promo store, the per-user carts, checkout and the        *)
(* per-user transaction logs.  Every db function is an operator from the   *)
(* stores (a record db) and its arguments to an HTTP status and the stores *)
(* it leaves behind; every action applies one of them to the current       *)
(* stores.  A raised HTTPException is a status other than 200 together     *)
(* with whatever the function had already written when it raised.          *)
(*                                                                         *)
(* Conventions.  Optional[T] is a set with at most one element (None is    *)
(* {}).  A Python dict is a function with a finite domain, except a cart,  *)
(* which is the sequence of its (sku, qty) entries in dict order because   *)
(* the code iterates over it.  Positions in a variant list are 1-based     *)
(* here and 0-based in the code.  Amounts are exact: prices and percents   *)
(* are drawn so that price * qty * percent is a multiple of 100, where the *)
(* code's float arithmetic is exact too.  A transaction's timestamp (the   *)
(* wall clock) is left out.                                                *)
(*                                                                         *)
(* The routes are plain `def` functions, which FastAPI runs on a pool of   *)
(* threads, and db.py takes no lock.  inflight holds, for each user, the   *)
(* checkout call a thread is running for that user: where the call is and  *)
(* its locals promo and purchased_items.  The actions AddProduct to        *)
(* Checkout run one call without another thread in between; the actions    *)
(* CheckoutValidate to CheckoutClear run one checkout pass by pass, with   *)
(* other calls in between.                                                 *)
(***************************************************************************)
EXTENDS Integers, Sequences, FiniteSets, TLC

VARIABLES PRODUCTS, SKU_TO_PRODUCT, PROMOS, CARTS, TRANSACTIONS_BY_USER,
          next_product_id, next_tx_id, inflight

vars == <<PRODUCTS, SKU_TO_PRODUCT, PROMOS, CARTS, TRANSACTIONS_BY_USER,
          next_product_id, next_tx_id, inflight>>

----------------------------------------------------------------------------
(* Bounds of the model and the inputs the requests are drawn from.         *)

MaxProducts == 2

MaxTx == 2

MaxStock == 1

MaxVariants == 2

MaxCartLines == 2

Users == {"u1", "u2"}

Sizes == {"s", "m"}

Colors == {"biru"}

Prices == {100, 120}

Percents == {10, 100}

Names == {"Tas Anyam"}

NewTexts == {"Baru"}

CodeInputs == {"duo", "DUO"}

None == {}

Some(x) == {x}

Get(o) == CHOOSE x \in o : TRUE

----------------------------------------------------------------------------
(* Python's dict and list operations.                                      *)

EmptyDict == [k \in {} |-> 0]

DictSet(d, k, v) == [x \in (DOMAIN d) \cup {k} |-> IF x = k THEN v ELSE d[x]]

DictPop(d, k) == [x \in (DOMAIN d) \ {k} |-> d[x]]

SeqFilter(s, Keep(_)) == SelectSeq(s, Keep)

RECURSIVE SeqSum(_)
SeqSum(s) == IF s = <<>> THEN 0 ELSE s[1] + SeqSum(Tail(s))

(* str.upper() on the strings the model uses.                              *)
UpperTable ==
  [x \in {"s", "m", "l", "biru", "coklat", "hijau", "pink", "duo", "DUO"} |->
     CASE x = "s" -> "S"
       [] x = "m" -> "M"
       [] x = "l" -> "L"
       [] x = "biru" -> "BIRU"
       [] x = "coklat" -> "COKLAT"
       [] x = "hijau" -> "HIJAU"
       [] x = "pink" -> "PINK"
       [] x = "duo" -> "DUO"
       [] x = "DUO" -> "DUO"]

upper(x) == UpperTable[x]

----------------------------------------------------------------------------
(* The stores as one value, and a function's outcome.                      *)

DB == [PRODUCTS |-> PRODUCTS, SKU_TO_PRODUCT |-> SKU_TO_PRODUCT,
       PROMOS |-> PROMOS, CARTS |-> CARTS,
       TRANSACTIONS_BY_USER |-> TRANSACTIONS_BY_USER,
       next_product_id |-> next_product_id, next_tx_id |-> next_tx_id]

Outcome(status, db) == [status |-> status, db |-> db]

----------------------------------------------------------------------------
(* Catalog store.                                                          *)

make_sku(product_id, size, color) ==
  "P" \o ToString(product_id) \o "-" \o upper(size) \o "-" \o upper(color)

(* Variant(sku=..., size=v.size, ...) for every v of a request, in order.  *)
BuildVariants(product_id, vcs) ==
  [i \in 1..Len(vcs) |->
     [sku |-> make_sku(product_id, vcs[i].size, vcs[i].color),
      size |-> vcs[i].size, color |-> vcs[i].color,
      price |-> vcs[i].price, stock |-> vcs[i].stock]]

(* The loop's test `sku in SKU_TO_PRODUCT`, against the index as it is     *)
(* when the loop starts: the loop itself registers nothing.                *)
DuplicateSku(index, variants) ==
  \E i \in 1..Len(variants) : variants[i].sku \in DOMAIN index

(* for idx, variant in enumerate(variants): SKU_TO_PRODUCT[sku] = (id, idx) *)
RECURSIVE RegisterSkus(_, _, _, _)
RegisterSkus(index, product_id, variants, i) ==
  IF i > Len(variants) THEN index
  ELSE RegisterSkus(DictSet(index, variants[i].sku, <<product_id, i>>),
                    product_id, variants, i + 1)

(* for variant in product.variants: SKU_TO_PRODUCT.pop(variant.sku, None)  *)
UnregisterSkus(index, variants) ==
  [s \in (DOMAIN index) \ {variants[i].sku : i \in 1..Len(variants)} |-> index[s]]


(* add_product that gives the new product the smallest id not in use.      *)
add_product_reusing(db, data) ==
  LET product_id == CHOOSE n \in 1..(db.next_product_id) :
                       /\ n \notin DOMAIN db.PRODUCTS
                       /\ \A k \in 1..(n - 1) : k \in DOMAIN db.PRODUCTS
      db1 == [db EXCEPT !.next_product_id =
                          IF product_id = @ THEN @ + 1 ELSE @]
      variants == BuildVariants(product_id, data.variants)
      product == [id |-> product_id, name |-> data.name,
                  description |-> data.description, variants |-> variants]
  IN IF DuplicateSku(db.SKU_TO_PRODUCT, variants)
     THEN Outcome(400, db1)
     ELSE Outcome(200,
            [db1 EXCEPT !.PRODUCTS = DictSet(@, product_id, product),
                        !.SKU_TO_PRODUCT = RegisterSkus(@, product_id, variants, 1)])

add_product(db, data) ==
  LET product_id == db.next_product_id
      db1 == [db EXCEPT !.next_product_id = @ + 1]
      variants == BuildVariants(product_id, data.variants)
      product == [id |-> product_id, name |-> data.name,
                  description |-> data.description, variants |-> variants]
  IN IF DuplicateSku(db.SKU_TO_PRODUCT, variants)
     THEN Outcome(400, db1)
     ELSE Outcome(200,
            [db1 EXCEPT !.PRODUCTS = DictSet(@, product_id, product),
                        !.SKU_TO_PRODUCT = RegisterSkus(@, product_id, variants, 1)])


(* update_product that stores data.description even when it is None.       *)
update_product_resetting(db, product_id, data) ==
  IF product_id \notin DOMAIN db.PRODUCTS THEN Outcome(404, db)
  ELSE
    LET old == db.PRODUCTS[product_id]
        named == [old EXCEPT
                    !.name = IF data.name # None THEN Get(data.name) ELSE @,
                    !.description = data.description]
        db1 == [db EXCEPT !.PRODUCTS = DictSet(@, product_id, named)]
    IN IF data.variants = None THEN Outcome(200, db1)
       ELSE
         LET index1 == UnregisterSkus(db.SKU_TO_PRODUCT, old.variants)
             new_variants == BuildVariants(product_id, Get(data.variants))
         IN IF DuplicateSku(index1, new_variants)
            THEN Outcome(400, [db1 EXCEPT !.SKU_TO_PRODUCT = index1])
            ELSE Outcome(200,
                   [db1 EXCEPT
                      !.PRODUCTS = DictSet(@, product_id,
                                     [named EXCEPT !.variants = new_variants]),
                      !.SKU_TO_PRODUCT =
                         RegisterSkus(index1, product_id, new_variants, 1)])

update_product(db, product_id, data) ==
  IF product_id \notin DOMAIN db.PRODUCTS THEN Outcome(404, db)
  ELSE
    LET old == db.PRODUCTS[product_id]
        named == [old EXCEPT
                    !.name = IF data.name # None THEN Get(data.name) ELSE @,
                    !.description = IF data.description # None
                                    THEN data.description ELSE @]
        db1 == [db EXCEPT !.PRODUCTS = DictSet(@, product_id, named)]
    IN IF data.variants = None THEN Outcome(200, db1)
       ELSE
         LET index1 == UnregisterSkus(db.SKU_TO_PRODUCT, old.variants)
             new_variants == BuildVariants(product_id, Get(data.variants))
         IN IF DuplicateSku(index1, new_variants)
            THEN Outcome(400, [db1 EXCEPT !.SKU_TO_PRODUCT = index1])
            ELSE Outcome(200,
                   [db1 EXCEPT
                      !.PRODUCTS = DictSet(@, product_id,
                                     [named EXCEPT !.variants = new_variants]),
                      !.SKU_TO_PRODUCT =
                         RegisterSkus(index1, product_id, new_variants, 1)])


(* delete_product without its sweep of the carts.                          *)
SweepCart_none(index, items) == items

(* to_del = [sku for sku in items if sku not in SKU_TO_PRODUCT]            *)
SweepCart(index, items) ==
  LET Kept(e) == e.sku \in DOMAIN index IN SeqFilter(items, Kept)

delete_product(db, product_id) ==
  IF product_id \notin DOMAIN db.PRODUCTS THEN Outcome(404, db)
  ELSE
    LET product == db.PRODUCTS[product_id]
        index1 == UnregisterSkus(db.SKU_TO_PRODUCT, product.variants)
    IN Outcome(200,
         [db EXCEPT !.PRODUCTS = DictPop(@, product_id),
                    !.SKU_TO_PRODUCT = index1,
                    !.CARTS = [u \in DOMAIN @ |-> SweepCart(index1, @[u])]])

get_product(db, product_id) ==
  IF product_id \in DOMAIN db.PRODUCTS
  THEN [status |-> 200, product |-> Some(db.PRODUCTS[product_id])]
  ELSE [status |-> 404, product |-> None]

(* 404 when the index has no entry; 500 (a KeyError or IndexError, which   *)
(* the code does not catch) when the entry names no stored variant.        *)
find_variant(db, sku) ==
  IF sku \notin DOMAIN db.SKU_TO_PRODUCT
  THEN [status |-> 404, product_id |-> 0, variant |-> None]
  ELSE
    LET product_id == db.SKU_TO_PRODUCT[sku][1]
        idx == db.SKU_TO_PRODUCT[sku][2]
    IN IF \/ product_id \notin DOMAIN db.PRODUCTS
          \/ idx \notin 1..Len(db.PRODUCTS[product_id].variants)
       THEN [status |-> 500, product_id |-> product_id, variant |-> None]
       ELSE [status |-> 200, product_id |-> product_id,
             variant |-> Some(db.PRODUCTS[product_id].variants[idx])]

(* The write-back loop: the first variant whose sku matches, then break.   *)
FirstWithSku(variants, sku) ==
  LET hits == {i \in 1..Len(variants) : variants[i].sku = sku}
  IN IF hits = {} THEN 0 ELSE CHOOSE i \in hits : \A j \in hits : i <= j


(* adjust_stock without its `if new_stock < 0: raise`.                     *)
adjust_stock_unchecked(db, sku, delta) ==
  LET found == find_variant(db, sku)
  IN IF found.status # 200
     THEN [status |-> found.status, db |-> db, new_stock |-> 0]
     ELSE
       LET new_stock == Get(found.variant).stock + delta
           i == FirstWithSku(db.PRODUCTS[found.product_id].variants, sku)
       IN [status |-> 200,
           db |-> IF i = 0 THEN db
                  ELSE [db EXCEPT !.PRODUCTS[found.product_id].variants[i].stock
                                     = new_stock],
           new_stock |-> new_stock]

adjust_stock(db, sku, delta) ==
  LET found == find_variant(db, sku)
  IN IF found.status # 200
     THEN [status |-> found.status, db |-> db, new_stock |-> 0]
     ELSE
       LET new_stock == Get(found.variant).stock + delta
           product == db.PRODUCTS[found.product_id]
           i == FirstWithSku(product.variants, sku)
       IN IF new_stock < 0 THEN [status |-> 400, db |-> db, new_stock |-> new_stock]
          ELSE [status |-> 200,
                db |-> IF i = 0 THEN db
                       ELSE [db EXCEPT !.PRODUCTS[found.product_id].variants[i].stock
                                          = new_stock],
                new_stock |-> new_stock]

----------------------------------------------------------------------------
(* Promo store.                                                            *)

create_promo(db, data) ==
  LET code == upper(data.code)
      applies == IF data.applies_to_skus = None THEN <<>>
                 ELSE Get(data.applies_to_skus)
      promo == [code |-> code, discount_percent |-> data.discount_percent,
                applies_to_skus |-> applies]
  IN IF code \in DOMAIN db.PROMOS THEN Outcome(400, db)
     ELSE Outcome(200, [db EXCEPT !.PROMOS = DictSet(@, code, promo)])


(* get_promo that looks the code up as given, without code.upper().        *)
get_promo_exact(db, code) ==
  IF code \in DOMAIN db.PROMOS
  THEN [status |-> 200, promo |-> Some(db.PROMOS[code])]
  ELSE [status |-> 404, promo |-> None]

get_promo(db, code) ==
  IF upper(code) \in DOMAIN db.PROMOS
  THEN [status |-> 200, promo |-> Some(db.PROMOS[upper(code)])]
  ELSE [status |-> 404, promo |-> None]

----------------------------------------------------------------------------
(* Cart store.                                                             *)

CartSkus(cart) == {cart[i].sku : i \in 1..Len(cart)}

(* cart.get(sku, 0): the quantity held for sku, 0 when absent.             *)
CartQty(cart, sku) ==
  IF sku \in CartSkus(cart)
  THEN cart[CHOOSE i \in 1..Len(cart) : cart[i].sku = sku].qty
  ELSE 0


(* cart[sku] += quantity instead of cart[sku] = quantity.                  *)
CartSet_add(cart, sku, quantity) ==
  IF sku \in CartSkus(cart)
  THEN [i \in 1..Len(cart) |->
          IF cart[i].sku = sku
          THEN [sku |-> sku, qty |-> cart[i].qty + quantity] ELSE cart[i]]
  ELSE Append(cart, [sku |-> sku, qty |-> quantity])

(* cart[sku] = quantity: an existing key keeps its place, a new one is     *)
(* appended.                                                               *)
CartSet(cart, sku, quantity) ==
  IF sku \in CartSkus(cart)
  THEN [i \in 1..Len(cart) |->
          IF cart[i].sku = sku THEN [sku |-> sku, qty |-> quantity] ELSE cart[i]]
  ELSE Append(cart, [sku |-> sku, qty |-> quantity])


(* cart.pop(sku, None) that pops nothing.                                  *)
CartPop_none(cart, sku) == cart

(* cart.pop(sku, None)                                                     *)
CartPop(cart, sku) ==
  LET Other(e) == e.sku # sku IN SeqFilter(cart, Other)

set_cart_quantity(db, user_id, sku, quantity) ==
  LET found == find_variant(db, sku)
  IN IF found.status # 200 THEN Outcome(found.status, db)
     ELSE IF quantity > Get(found.variant).stock THEN Outcome(400, db)
     ELSE
       LET stored == CartSet(db.CARTS[user_id], sku, quantity)
       IN Outcome(200,
            [db EXCEPT !.CARTS[user_id] =
               IF CartQty(stored, sku) <= 0 THEN CartPop(stored, sku) ELSE stored])


(* remove_cart_item that clears the whole cart.                            *)
remove_cart_item_all(db, user_id, sku) ==
  Outcome(200, [db EXCEPT !.CARTS[user_id] = <<>>])

remove_cart_item(db, user_id, sku) ==
  Outcome(200, [db EXCEPT !.CARTS[user_id] = CartPop(@, sku)])


(* checkout without its clear_cart.                                        *)
clear_cart_none(db, user_id) == db

clear_cart(db, user_id) == [db EXCEPT !.CARTS[user_id] = <<>>]

(* The status of the first find_variant that raises while the code walks   *)
(* the cart in order, 200 when none does.                                  *)
FirstFailure(statuses) ==
  LET bad == {i \in 1..Len(statuses) : statuses[i] # 200}
  IN IF bad = {} THEN 200
     ELSE statuses[CHOOSE i \in bad : \A j \in bad : i <= j]


(* cart_view with line_subtotal = variant.price, the quantity forgotten.   *)
cart_view_unit(db, user_id) ==
  LET cart == db.CARTS[user_id]
      status == FirstFailure([i \in 1..Len(cart) |-> find_variant(db, cart[i].sku).status])
      Line(e) ==
        LET found == find_variant(db, e.sku)
            variant == Get(found.variant)
        IN [sku |-> e.sku, name |-> db.PRODUCTS[found.product_id].name,
            size |-> variant.size, color |-> variant.color,
            unit_price |-> variant.price, quantity |-> e.qty,
            line_subtotal |-> variant.price]
  IN IF status # 200 THEN [status |-> status, items |-> <<>>, subtotal |-> 0]
     ELSE LET items == [i \in 1..Len(cart) |-> Line(cart[i])]
          IN [status |-> 200, items |-> items,
              subtotal |-> SeqSum([i \in 1..Len(items) |-> items[i].line_subtotal])]

cart_view(db, user_id) ==
  LET cart == db.CARTS[user_id]
      status == FirstFailure([i \in 1..Len(cart) |-> find_variant(db, cart[i].sku).status])
      Line(e) ==
        LET found == find_variant(db, e.sku)
            variant == Get(found.variant)
        IN [sku |-> e.sku, name |-> db.PRODUCTS[found.product_id].name,
            size |-> variant.size, color |-> variant.color,
            unit_price |-> variant.price, quantity |-> e.qty,
            line_subtotal |-> variant.price * e.qty]
  IN IF status # 200 THEN [status |-> status, items |-> <<>>, subtotal |-> 0]
     ELSE LET items == [i \in 1..Len(cart) |-> Line(cart[i])]
          IN [status |-> 200, items |-> items,
              subtotal |-> SeqSum([i \in 1..Len(items) |-> items[i].line_subtotal])]

----------------------------------------------------------------------------
(* Checkout engine.                                                        *)

(* `if promo_code:` is false for None and for the empty string.            *)
Truthy(promo_code) == promo_code # None /\ Get(promo_code) # ""


(* The pre-validation loop without its `if qty > variant.stock: raise`.    *)
EntryStatus_unchecked(db, e) == find_variant(db, e.sku).status

(* One round of the pre-validation loop.                                   *)
EntryStatus(db, e) ==
  LET found == find_variant(db, e.sku)
  IN IF found.status # 200 THEN found.status
     ELSE IF e.qty > Get(found.variant).stock THEN 400 ELSE 200

ValidateStock(db, cart) ==
  FirstFailure([i \in 1..Len(cart) |-> EntryStatus(db, cart[i])])


(* Eligibility that ignores applies_to_skus.                               *)
Eligible_any(promo, sku) == promo # None

Eligible(promo, sku) ==
  /\ promo # None
  /\ \/ Get(promo).applies_to_skus = <<>>
     \/ \E i \in 1..Len(Get(promo).applies_to_skus) :
           Get(promo).applies_to_skus[i] = sku


(* line_before * discount_percent, the division by 100 forgotten.          *)
LineDiscount_unscaled(promo, sku, line_before) ==
  IF Eligible(promo, sku) THEN line_before * Get(promo).discount_percent ELSE 0

LineDiscount(promo, sku, line_before) ==
  IF Eligible(promo, sku)
  THEN (line_before * Get(promo).discount_percent) \div 100
  ELSE 0

(* One round of the pricing loop, run only after validation has resolved   *)
(* every SKU of the cart against the same stores.                          *)
PurchasedItem(db, promo, e) ==
  LET found == find_variant(db, e.sku)
      variant == Get(found.variant)
      line_before == variant.price * e.qty
      line_discount == LineDiscount(promo, e.sku, line_before)
  IN [sku |-> e.sku, name |-> db.PRODUCTS[found.product_id].name,
      size |-> variant.size, color |-> variant.color,
      unit_price |-> variant.price, quantity |-> e.qty,
      subtotal_before_discount |-> line_before,
      discount_applied |-> line_discount,
      subtotal_after_discount |-> line_before - line_discount]

(* for item in purchased_items: adjust_stock(item.sku, -item.quantity),    *)
(* stopping at the first call that raises, with the earlier ones applied.  *)
RECURSIVE DeductStock(_, _, _)
DeductStock(db, items, i) ==
  IF i > Len(items) THEN Outcome(200, db)
  ELSE LET r == adjust_stock(db, items[i].sku, -items[i].quantity)
       IN IF r.status # 200 THEN Outcome(r.status, r.db)
          ELSE DeductStock(r.db, items, i + 1)


(* The transaction numbered within its user's log instead of by            *)
(* _gen_tx_id.                                                             *)
Transaction_per_user(db, user_id, promo, items) ==
  LET subtotal_before ==
        SeqSum([i \in 1..Len(items) |-> items[i].subtotal_before_discount])
      discount_total ==
        SeqSum([i \in 1..Len(items) |-> items[i].discount_applied])
  IN [id |-> Len(db.TRANSACTIONS_BY_USER[user_id]) + 1,
      user_id |-> user_id, items |-> items,
      subtotal_before_discount |-> subtotal_before,
      discount_total |-> discount_total,
      total_paid |-> subtotal_before - discount_total,
      promo_code |-> IF promo # None THEN Some(Get(promo).code) ELSE None]

Transaction(db, user_id, promo, items) ==
  LET subtotal_before ==
        SeqSum([i \in 1..Len(items) |-> items[i].subtotal_before_discount])
      discount_total ==
        SeqSum([i \in 1..Len(items) |-> items[i].discount_applied])
  IN [id |-> db.next_tx_id, user_id |-> user_id, items |-> items,
      subtotal_before_discount |-> subtotal_before,
      discount_total |-> discount_total,
      total_paid |-> subtotal_before - discount_total,
      promo_code |-> IF promo # None THEN Some(Get(promo).code) ELSE None]


(* checkout that stores the new transaction as the user's whole log        *)
(* instead of appending it.                                                *)
checkout_overwriting(db, user_id, promo_code) ==
  LET cart == db.CARTS[user_id]
      looked == IF Truthy(promo_code) THEN get_promo(db, Get(promo_code))
                ELSE [status |-> 200, promo |-> None]
  IN IF cart = <<>> THEN Outcome(400, db)
     ELSE IF looked.status # 200 THEN Outcome(looked.status, db)
     ELSE IF ValidateStock(db, cart) # 200 THEN Outcome(ValidateStock(db, cart), db)
     ELSE
       LET items == [i \in 1..Len(cart) |-> PurchasedItem(db, looked.promo, cart[i])]
           deducted == DeductStock(db, items, 1)
           tx == Transaction(deducted.db, user_id, looked.promo, items)
       IN IF deducted.status # 200 THEN deducted
          ELSE Outcome(200,
                 clear_cart(
                   [deducted.db EXCEPT
                      !.next_tx_id = @ + 1,
                      !.TRANSACTIONS_BY_USER[user_id] = <<tx>>],
                   user_id))

checkout(db, user_id, promo_code) ==
  LET cart == db.CARTS[user_id]
      looked == IF Truthy(promo_code) THEN get_promo(db, Get(promo_code))
                ELSE [status |-> 200, promo |-> None]
  IN IF cart = <<>> THEN Outcome(400, db)
     ELSE IF looked.status # 200 THEN Outcome(looked.status, db)
     ELSE IF ValidateStock(db, cart) # 200 THEN Outcome(ValidateStock(db, cart), db)
     ELSE
       LET items == [i \in 1..Len(cart) |-> PurchasedItem(db, looked.promo, cart[i])]
           deducted == DeductStock(db, items, 1)
           tx == Transaction(deducted.db, user_id, looked.promo, items)
       IN IF deducted.status # 200 THEN deducted
          ELSE Outcome(200,
                 clear_cart(
                   [deducted.db EXCEPT
                      !.next_tx_id = @ + 1,
                      !.TRANSACTIONS_BY_USER[user_id] = Append(@, tx)],
                   user_id))

list_transactions(db, user_id) == db.TRANSACTIONS_BY_USER[user_id]

----------------------------------------------------------------------------
(* The state after import: the empty stores, then seed_initial_data.  The  *)
(* seed's 3 sizes x 4 colors with stock 10 are cut to one size, one color  *)
(* and the model's stock bound, a state update_product reaches from the    *)
(* real seed.                                                              *)

SeedSizes == <<"s">>

SeedColors == <<"biru">>

SeedPrice == [x \in {"s", "m", "l"} |->
                CASE x = "s" -> 100 [] x = "m" -> 120 [] x = "l" -> 140]

EmptyStores ==
  [PRODUCTS |-> EmptyDict, SKU_TO_PRODUCT |-> EmptyDict, PROMOS |-> EmptyDict,
   CARTS |-> [u \in Users |-> <<>>],
   TRANSACTIONS_BY_USER |-> [u \in Users |-> <<>>],
   next_product_id |-> 1, next_tx_id |-> 1]

seed_initial_data(db) ==
  IF DOMAIN db.PRODUCTS # {} THEN db
  ELSE
    LET nc == Len(SeedColors)
        variants ==
          [k \in 1..(Len(SeedSizes) * nc) |->
             [size |-> SeedSizes[((k - 1) \div nc) + 1],
              color |-> SeedColors[((k - 1) % nc) + 1],
              price |-> SeedPrice[SeedSizes[((k - 1) \div nc) + 1]],
              stock |-> MaxStock]]
    IN add_product(db, [name |-> "Tas Anyam",
                        description |-> Some("Tas anyaman dengan berbagai ukuran dan warna"),
                        variants |-> variants]).db

----------------------------------------------------------------------------
(* The requests.  A request body is drawn from the values its pydantic     *)
(* model admits (price > 0, stock >= 0, 0 < discount_percent <= 100), cut  *)
(* to the bounds above.                                                    *)

VariantCreates(sizes, prices) ==
  [size : sizes, color : Colors, price : prices, stock : {MaxStock}]

VariantLists(sizes, prices) ==
  UNION {[1..n -> VariantCreates(sizes, prices)] : n \in 0..MaxVariants}

Optional(S) == {None} \cup {Some(x) : x \in S}

ProductCreates(sizes, prices) ==
  [name : Names, description : {None}, variants : VariantLists(sizes, prices)]

ProductUpdates(texts, sizes, prices) ==
  [name : Optional(texts), description : Optional(texts),
   variants : Optional(VariantLists(sizes, prices))]

ProductIds == 1..MaxProducts

AllSkus == {make_sku(p, s, c) : p \in ProductIds, s \in Sizes, c \in Colors}

PromoCreates ==
  [code : CodeInputs, discount_percent : Percents,
   applies_to_skus : Optional({<<>>, <<make_sku(1, "s", "biru")>>})]

Quantities == (-1)..(MaxStock + 1)

(* A stock that admits every quantity of Quantities, and the requests that *)
(* replace a product's variants with variants of that stock.               *)
FullStock == MaxStock + 1

RestockUpdates(sizes, prices) ==
  [name : {None}, description : {None},
   variants :
     {Some(l) : l \in UNION {[1..n -> [size : sizes, color : Colors,
                                       price : prices, stock : {FullStock}]] :
                               n \in 0..MaxVariants}}]

Deltas == {-1, 1}

(* A call that runs from its first line to its last with no other thread  *)
(* in between leaves its stores and no checkout call other than it was.    *)
Store(db) ==
  /\ PRODUCTS' = db.PRODUCTS
  /\ SKU_TO_PRODUCT' = db.SKU_TO_PRODUCT
  /\ PROMOS' = db.PROMOS
  /\ CARTS' = db.CARTS
  /\ TRANSACTIONS_BY_USER' = db.TRANSACTIONS_BY_USER
  /\ next_product_id' = db.next_product_id
  /\ next_tx_id' = db.next_tx_id
  /\ inflight' = inflight

(* No checkout call running: the locals are unset.                         *)
NoCall == [pc |-> "idle", promo |-> None, purchased_items |-> <<>>, deducted |-> 0]

(* One pass of the checkout call running for user_id: its stores and where *)
(* the call now is.                                                        *)
StorePass(db, user_id, call) ==
  /\ PRODUCTS' = db.PRODUCTS
  /\ SKU_TO_PRODUCT' = db.SKU_TO_PRODUCT
  /\ PROMOS' = db.PROMOS
  /\ CARTS' = db.CARTS
  /\ TRANSACTIONS_BY_USER' = db.TRANSACTIONS_BY_USER
  /\ next_product_id' = db.next_product_id
  /\ next_tx_id' = db.next_tx_id
  /\ inflight' = [inflight EXCEPT ![user_id] = call]

ImportedStores == seed_initial_data(EmptyStores)

Init ==
  /\ PRODUCTS = ImportedStores.PRODUCTS
  /\ SKU_TO_PRODUCT = ImportedStores.SKU_TO_PRODUCT
  /\ PROMOS = ImportedStores.PROMOS
  /\ CARTS = ImportedStores.CARTS
  /\ TRANSACTIONS_BY_USER = ImportedStores.TRANSACTIONS_BY_USER
  /\ next_product_id = ImportedStores.next_product_id
  /\ next_tx_id = ImportedStores.next_tx_id
  /\ inflight = [u \in Users |-> NoCall]

AddProduct(creates) ==
  /\ next_product_id <= MaxProducts
  /\ \E data \in creates : Store(add_product(DB, data).db)

UpdateProduct(updates) ==
  \E id \in ProductIds, data \in updates : Store(update_product(DB, id, data).db)

DeleteProduct ==
  \E id \in ProductIds : Store(delete_product(DB, id).db)

AdjustStock ==
  \E sku \in AllSkus, delta \in Deltas :
     LET r == adjust_stock(DB, sku, delta)
     IN /\ r.new_stock <= MaxStock
        /\ Store(r.db)

CreatePromo ==
  \E data \in PromoCreates : Store(create_promo(DB, data).db)

SetCartQuantity ==
  \E u \in Users, sku \in AllSkus, q \in Quantities :
     LET r == set_cart_quantity(DB, u, sku, q)
     IN /\ Len(r.db.CARTS[u]) <= MaxCartLines
        /\ Store(r.db)

RemoveCartItem ==
  \E u \in Users, sku \in AllSkus : Store(remove_cart_item(DB, u, sku).db)

Checkout(codes) ==
  \E u \in Users, code \in codes :
     LET r == checkout(DB, u, code)
     IN /\ r.db.next_tx_id <= MaxTx + 1
        /\ Store(r.db)

(* checkout, lines 210-220: the empty-cart test, the promo lookup and the  *)
(* pre-validation loop.  A raise ends the call with nothing written.       *)
CheckoutValidate(codes) ==
  \E u \in Users, code \in codes :
     LET looked == IF Truthy(code) THEN get_promo(DB, Get(code))
                   ELSE [status |-> 200, promo |-> None]
     IN /\ inflight[u].pc = "idle"
        /\ CARTS[u] # <<>>
        /\ looked.status = 200
        /\ ValidateStock(DB, CARTS[u]) = 200
        /\ StorePass(DB, u, [NoCall EXCEPT !.pc = "validated",
                                           !.promo = looked.promo])

(* checkout, lines 222-256: the pricing loop over the cart as it is now.   *)
(* A find_variant that raises ends the call.                               *)
CheckoutPrice ==
  \E u \in Users :
     LET cart == CARTS[u]
         call == inflight[u]
     IN /\ call.pc = "validated"
        /\ IF \A i \in 1..Len(cart) : find_variant(DB, cart[i].sku).status = 200
           THEN StorePass(DB, u,
                  [call EXCEPT !.pc = "priced",
                               !.purchased_items =
                                  [i \in 1..Len(cart) |->
                                     PurchasedItem(DB, call.promo, cart[i])]])
           ELSE StorePass(DB, u, NoCall)

(* checkout, lines 259-260: one round of the commit loop.  An adjust_stock *)
(* that raises ends the call, the earlier rounds' writes staying.          *)
CheckoutDeduct ==
  \E u \in Users :
     LET call == inflight[u]
         item == call.purchased_items[call.deducted + 1]
         r == adjust_stock(DB, item.sku, -item.quantity)
     IN /\ call.pc = "priced"
        /\ call.deducted < Len(call.purchased_items)
        /\ IF r.status = 200
           THEN StorePass(r.db, u, [call EXCEPT !.deducted = @ + 1])
           ELSE StorePass(r.db, u, NoCall)

(* checkout, lines 263-273: the transaction, with the next id, appended to *)
(* the user's log.                                                         *)
CheckoutRecord ==
  \E u \in Users :
     LET call == inflight[u]
         tx == Transaction(DB, u, call.promo, call.purchased_items)
     IN /\ call.pc = "priced"
        /\ call.deducted = Len(call.purchased_items)
        /\ next_tx_id <= MaxTx
        /\ StorePass([DB EXCEPT !.next_tx_id = @ + 1,
                                !.TRANSACTIONS_BY_USER[u] = Append(@, tx)],
                     u, [call EXCEPT !.pc = "recorded"])

(* checkout, lines 276-278: clear_cart and the return.                     *)
CheckoutClear ==
  \E u \in Users :
     /\ inflight[u].pc = "recorded"
     /\ StorePass(clear_cart(DB, u), u, NoCall)

(* Every request but create_promo, over one size and one price: the       *)
(* catalog, the carts and checkout.                                        *)
Next ==
  \/ AddProduct(ProductCreates({"s"}, {100}))
  \/ UpdateProduct(ProductUpdates({}, {"s"}, {100}))
  \/ DeleteProduct
  \/ AdjustStock
  \/ SetCartQuantity
  \/ RemoveCartItem
  \/ Checkout(Optional({"duo"}))

Spec == Init /\ [][Next]_vars

(* The catalog and the carts alone, over every size.                       *)
NextCatalog ==
  \/ AddProduct(ProductCreates(Sizes, {100}))
  \/ UpdateProduct(ProductUpdates({}, Sizes, {100}))
  \/ DeleteProduct
  \/ AdjustStock
  \/ SetCartQuantity
  \/ RemoveCartItem

SpecCatalog == Init /\ [][NextCatalog]_vars

(* Promos and checkout over a catalog that only grows.                     *)
NextPromo ==
  \/ AddProduct(ProductCreates({"s"}, Prices))
  \/ CreatePromo
  \/ SetCartQuantity
  \/ RemoveCartItem
  \/ Checkout(Optional(CodeInputs))

SpecPromo == Init /\ [][NextPromo]_vars

(* One product whose name, description, prices and stock change under the  *)
(* carts and the transactions that hold its SKU.                           *)
NextLog ==
  \/ UpdateProduct(ProductUpdates(NewTexts, {"s"}, Prices))
  \/ DeleteProduct
  \/ AdjustStock
  \/ SetCartQuantity
  \/ RemoveCartItem
  \/ Checkout({None})

SpecLog == Init /\ [][NextLog]_vars

(* The carts under a product whose variants are replaced, over every size  *)
(* and price, with a stock that lets a cart hold more than one unit.       *)
NextView ==
  \/ UpdateProduct(RestockUpdates(Sizes, Prices))
  \/ SetCartQuantity
  \/ RemoveCartItem

SpecView == Init /\ [][NextView]_vars

(* Two products whose names and descriptions change, or whose variants are *)
(* emptied, under the carts.                                               *)
NextNames ==
  \/ AddProduct(ProductCreates({"s"}, {100}))
  \/ UpdateProduct(ProductUpdates(NewTexts, {}, {}))
  \/ SetCartQuantity
  \/ RemoveCartItem

SpecNames == Init /\ [][NextNames]_vars

(* Checkout calls on two threads, pass by pass, next to calls that fill    *)
(* the catalog and the carts.                                              *)
NextThreads ==
  \/ AddProduct(ProductCreates({"s"}, {100}))
  \/ SetCartQuantity
  \/ CheckoutValidate({None})
  \/ CheckoutPrice
  \/ CheckoutDeduct
  \/ CheckoutRecord
  \/ CheckoutClear

SpecThreads == Init /\ [][NextThreads]_vars

----------------------------------------------------------------------------
(* What the properties below read off the stores.                          *)

StockOf(db, sku) == Get(find_variant(db, sku).variant).stock

PriceOf(db, sku) == Get(find_variant(db, sku).variant).price

ProductSkus(db, id) ==
  {db.PRODUCTS[id].variants[i].sku : i \in 1..Len(db.PRODUCTS[id].variants)}

Slots(db) ==
  UNION {{<<p, i>> : i \in 1..Len(db.PRODUCTS[p].variants)} : p \in DOMAIN db.PRODUCTS}

VariantAt(db, slot) == db.PRODUCTS[slot[1]].variants[slot[2]]

Range(seq) == {seq[i] : i \in 1..Len(seq)}

Recorded == UNION {Range(TRANSACTIONS_BY_USER[u]) : u \in Users}

LastOf(seq) == seq[Len(seq)]

CartOf(items) ==
  [i \in 1..Len(items) |-> [sku |-> items[i].sku, qty |-> items[i].quantity]]

----------------------------------------------------------------------------
(* C1: in every reachable state every variant's stock is >= 0, whatever    *)
(* add_product, update_product, delete_product, adjust_stock,              *)
(* set_cart_quantity and checkout calls came before.                       *)
C1_StockNeverNegative ==
  \A slot \in Slots(DB) : VariantAt(DB, slot).stock >= 0

(* Two users' carts held the same SKU for more than its stock: one has     *)
(* checked out, the stock is 0 and the other still holds the SKU.          *)
C1_Witness ==
  \E u \in Users, w \in Users :
     /\ u # w
     /\ \E tx \in Range(TRANSACTIONS_BY_USER[u]), i \in 1..Len(CARTS[w]) :
           /\ CARTS[w][i].sku \in {it.sku : it \in Range(tx.items)}
           /\ find_variant(DB, CARTS[w][i].sku).status = 200
           /\ StockOf(DB, CARTS[w][i].sku) = 0
           /\ CARTS[w][i].qty > 0

(* C2: after a successful checkout the variant find_variant returns for    *)
(* each purchased SKU has its earlier stock less the purchased quantity,   *)
(* and every variant whose SKU was not purchased is unchanged.             *)
C2_CheckoutDeductsPurchased ==
  \A u \in Users, code \in Optional(CodeInputs) :
     LET r == checkout(DB, u, code)
     IN r.status = 200 =>
          /\ \A sku \in CartSkus(CARTS[u]) :
                /\ find_variant(r.db, sku).status = 200
                /\ StockOf(r.db, sku) = StockOf(DB, sku) - CartQty(CARTS[u], sku)
          /\ \A slot \in Slots(DB) :
                VariantAt(DB, slot).sku \notin CartSkus(CARTS[u])
                  => /\ slot \in Slots(r.db)
                     /\ VariantAt(r.db, slot) = VariantAt(DB, slot)

(* C3: a successful checkout empties the user's cart and appends to the    *)
(* user's log exactly one transaction, whose items are the cart's SKUs and *)
(* quantities; every other user's cart and log stay as they were.          *)
C3_CheckoutClearsAndRecords ==
  \A u \in Users, code \in Optional(CodeInputs) :
     LET r == checkout(DB, u, code)
         log == TRANSACTIONS_BY_USER[u]
         log2 == r.db.TRANSACTIONS_BY_USER[u]
     IN r.status = 200 =>
          /\ r.db.CARTS[u] = <<>>
          /\ Len(log2) = Len(log) + 1
          /\ SubSeq(log2, 1, Len(log)) = log
          /\ CartOf(LastOf(log2).items) = CARTS[u]
          /\ \A w \in Users \ {u} :
                /\ r.db.CARTS[w] = CARTS[w]
                /\ r.db.TRANSACTIONS_BY_USER[w] = TRANSACTIONS_BY_USER[w]

(* One user has checked out (a transaction, an empty cart) while the other *)
(* holds a cart and a transaction of their own.                            *)
C3_Witness ==
  \E u \in Users, w \in Users :
     /\ u # w
     /\ TRANSACTIONS_BY_USER[u] # <<>> /\ CARTS[u] = <<>>
     /\ TRANSACTIONS_BY_USER[w] # <<>> /\ CARTS[w] # <<>>
     /\ checkout(DB, w, None).status = 200

(* C4: a checkout that fails leaves the stores as they were, and a         *)
(* checkout of a non-empty cart with a resolved promo that passes the      *)
(* pre-validation pass does not fail.                                      *)
C4_FailedCheckoutChangesNothing ==
  \A u \in Users, code \in Optional(CodeInputs) :
     LET r == checkout(DB, u, code)
     IN /\ r.status # 200 => r.db = DB
        /\ ( /\ CARTS[u] # <<>>
             /\ (Truthy(code) => get_promo(DB, Get(code)).status = 200)
             /\ ValidateStock(DB, CARTS[u]) = 200 ) => r.status = 200

(* One cart holds a SKU that no longer resolves, another a quantity above  *)
(* the stock left, and the promo code is unknown: each checkout fails.     *)
C4_Witness ==
  \E u \in Users, w \in Users :
     /\ u # w
     /\ CARTS[u] # <<>> /\ checkout(DB, u, None).status = 404
     /\ CARTS[w] # <<>> /\ checkout(DB, w, None).status = 400
     /\ \A i \in 1..Len(CARTS[w]) : find_variant(DB, CARTS[w][i].sku).status = 200
     /\ checkout(DB, w, Some("duo")).status = 404
     /\ \E x \in Users : TRANSACTIONS_BY_USER[x] # <<>>

(* C5: every variant of product n has the SKU P<n>-<SIZE>-<COLOR>, and no  *)
(* two variants of the catalog share a SKU.                                *)
C5_SkusDerivedAndUnique ==
  /\ \A slot \in Slots(DB) :
        VariantAt(DB, slot).sku =
          make_sku(slot[1], VariantAt(DB, slot).size, VariantAt(DB, slot).color)
  /\ \A a \in Slots(DB), b \in Slots(DB) :
        VariantAt(DB, a).sku = VariantAt(DB, b).sku => a = b

(* C6: in a checkout with a promo a line's discount is its amount times    *)
(* percent/100 when applies_to_skus is empty or holds the line's SKU, and  *)
(* 0 otherwise; with a promo for {A} and a cart of A and B the discount is *)
(* priceA*qtyA*pct/100 and the total paid priceA*qtyA*(1-pct/100) +        *)
(* priceB*qtyB (both sides times 100 below).                               *)
C6_DiscountOnlyOnEligibleLines ==
  \A u \in Users, code \in CodeInputs :
     LET r == checkout(DB, u, Some(code))
         promo == PROMOS[upper(code)]
         tx == LastOf(r.db.TRANSACTIONS_BY_USER[u])
         cart == CARTS[u]
     IN r.status = 200 =>
          /\ Len(tx.items) = Len(cart)
          /\ \A i \in 1..Len(tx.items) :
                /\ tx.items[i].subtotal_before_discount =
                     PriceOf(DB, cart[i].sku) * cart[i].qty
                /\ 100 * tx.items[i].discount_applied =
                     IF \/ promo.applies_to_skus = <<>>
                        \/ tx.items[i].sku \in Range(promo.applies_to_skus)
                     THEN tx.items[i].subtotal_before_discount * promo.discount_percent
                     ELSE 0
          /\ \A a \in CartSkus(cart), b \in CartSkus(cart) :
                ( /\ a # b
                  /\ promo.applies_to_skus = <<a>>
                  /\ CartSkus(cart) = {a, b} )
                => /\ 100 * tx.discount_total =
                        PriceOf(DB, a) * CartQty(cart, a) * promo.discount_percent
                   /\ 100 * tx.total_paid =
                        PriceOf(DB, a) * CartQty(cart, a) * (100 - promo.discount_percent)
                        + 100 * PriceOf(DB, b) * CartQty(cart, b)

(* A recorded transaction with a promo and two lines, one discounted and   *)
(* one not.                                                                *)
C6_Witness ==
  \E tx \in Recorded :
     /\ tx.promo_code # None
     /\ \E i \in 1..Len(tx.items), j \in 1..Len(tx.items) :
           /\ tx.items[i].discount_applied > 0
           /\ tx.items[j].discount_applied = 0

(* C7: every recorded transaction has total_paid = subtotal - discount and *)
(* 0 <= discount <= subtotal, the subtotal being the sum of unit price     *)
(* times quantity and the discount the sum of the lines' discounts.        *)
C7_TotalsConsistent ==
  \A tx \in Recorded :
     /\ tx.total_paid = tx.subtotal_before_discount - tx.discount_total
     /\ 0 <= tx.discount_total
     /\ tx.discount_total <= tx.subtotal_before_discount
     /\ tx.total_paid >= 0
     /\ tx.subtotal_before_discount =
          SeqSum([i \in 1..Len(tx.items) |->
                    tx.items[i].unit_price * tx.items[i].quantity])
     /\ tx.discount_total =
          SeqSum([i \in 1..Len(tx.items) |-> tx.items[i].discount_applied])

(* Two recorded transactions: one discounted in part, one by 100 percent   *)
(* on every line, so that nothing is paid.                                 *)
C7_Witness ==
  /\ \E tx \in Recorded :
        /\ tx.discount_total > 0
        /\ tx.total_paid = 0
  /\ \E tx \in Recorded : tx.discount_total = 0 /\ tx.total_paid > 0

(* C8: every SKU held in a cart resolves through find_variant.             *)
C8_CartSkusResolve ==
  \A u \in Users :
     \A i \in 1..Len(CARTS[u]) : find_variant(DB, CARTS[u][i].sku).status = 200

(* C9: after a successful delete_product no cart holds a SKU of the        *)
(* deleted product, the entries for the SKUs of the other stored products  *)
(* keep their quantities, and cart_view succeeds for every user.           *)
C9_DeleteSweepsCarts ==
  \A id \in ProductIds :
     LET r == delete_product(DB, id)
     IN r.status = 200 =>
          \A u \in Users :
             /\ CartSkus(r.db.CARTS[u]) \cap
                  (ProductSkus(DB, id) \cup
                   {make_sku(id, s, c) : s \in Sizes, c \in Colors}) = {}
             /\ \A p \in (DOMAIN PRODUCTS) \ {id} :
                   \A sku \in ProductSkus(DB, p) :
                      CartQty(r.db.CARTS[u], sku) = CartQty(CARTS[u], sku)
             /\ cart_view(r.db, u).status = 200

(* A cart holds a SKU of the product to delete and one of another stored   *)
(* product; the first is swept and the second kept.                        *)
C9_Witness ==
  \E id \in DOMAIN PRODUCTS, p \in DOMAIN PRODUCTS, u \in Users :
     /\ id # p
     /\ \E a \in ProductSkus(DB, id), b \in ProductSkus(DB, p) :
           /\ CartQty(CARTS[u], a) > 0
           /\ CartQty(CARTS[u], b) > 0
           /\ CartQty(delete_product(DB, id).db.CARTS[u], a) = 0
           /\ CartQty(delete_product(DB, id).db.CARTS[u], b) > 0

(* C10: for a SKU that resolves, with stock s, set_cart_quantity fails     *)
(* with 400 and changes nothing for a quantity above s, and for            *)
(* 0 < q <= s it succeeds and leaves the user's entry at exactly q, the    *)
(* user's other entries and the other users' carts as they were.           *)
C10_SetQuantityWithinStock ==
  \A u \in Users, sku \in AllSkus, q \in Quantities :
     LET r == set_cart_quantity(DB, u, sku, q)
         cart2 == r.db.CARTS[u]
     IN find_variant(DB, sku).status = 200 =>
          /\ q > StockOf(DB, sku) => (r.status = 400 /\ r.db = DB)
          /\ (0 < q /\ q <= StockOf(DB, sku)) =>
                /\ r.status = 200
                /\ Cardinality({i \in 1..Len(cart2) : cart2[i].sku = sku}) = 1
                /\ CartQty(cart2, sku) = q
                /\ CartPop(cart2, sku) = CartPop(CARTS[u], sku)
                /\ \A w \in Users \ {u} : r.db.CARTS[w] = CARTS[w]
                /\ [r.db EXCEPT !.CARTS = CARTS] = DB

(* A cart of two entries holds a SKU at exactly its stock, the other user  *)
(* has a cart too, and one more than the stock is refused.                 *)
C10_Witness ==
  \E u \in Users, w \in Users, sku \in AllSkus :
     /\ u # w
     /\ CARTS[w] # <<>>
     /\ Len(CARTS[u]) = 2
     /\ find_variant(DB, sku).status = 200
     /\ StockOf(DB, sku) > 0
     /\ CartQty(CARTS[u], sku) = StockOf(DB, sku)
     /\ set_cart_quantity(DB, u, sku, StockOf(DB, sku) + 1).status = 400
     /\ set_cart_quantity(DB, u, sku, StockOf(DB, sku)).status = 200

(* C11: for every user, SKU and quantity q <= 0, set_cart_quantity leaves  *)
(* the carts as remove_cart_item does: the SKU is absent from the user's   *)
(* cart and from the lines of the cart view afterward.                     *)
C11_NonPositiveQuantityRemoves ==
  \A u \in Users, sku \in AllSkus, q \in {x \in Quantities : x <= 0} :
     LET r == set_cart_quantity(DB, u, sku, q)
         v == cart_view(r.db, u)
     IN /\ r.db.CARTS = remove_cart_item(DB, u, sku).db.CARTS
        /\ sku \notin CartSkus(r.db.CARTS[u])
        /\ v.status = 200 => \A i \in 1..Len(v.items) : v.items[i].sku # sku

(* C12: in every reachable state every quantity held in a cart is > 0, and *)
(* so is every quantity in the carts any set_cart_quantity call leaves.    *)
C12_CartQuantitiesPositive ==
  /\ \A u \in Users : \A i \in 1..Len(CARTS[u]) : CARTS[u][i].qty > 0
  /\ \A u \in Users, sku \in AllSkus, q \in Quantities :
        LET cart2 == set_cart_quantity(DB, u, sku, q).db.CARTS[u]
        IN \A i \in 1..Len(cart2) : cart2[i].qty > 0

(* A cart holds a SKU that resolves; setting it to 0 and to -1 succeeds    *)
(* and takes the entry out, the cart's other entry staying.                *)
C12_Witness ==
  \E u \in Users, sku \in AllSkus :
     /\ Len(CARTS[u]) = 2
     /\ CartQty(CARTS[u], sku) > 0
     /\ \A q \in {0, -1} :
           /\ set_cart_quantity(DB, u, sku, q).status = 200
           /\ Len(set_cart_quantity(DB, u, sku, q).db.CARTS[u]) = 1
           /\ sku \notin CartSkus(set_cart_quantity(DB, u, sku, q).db.CARTS[u])

(* C13: remove_cart_item never fails and a second call changes nothing     *)
(* more; on a SKU the cart does not hold it changes no store at all; on a  *)
(* SKU the cart holds it takes out that entry alone, the cart's other      *)
(* entries, the other carts and every other store staying as they were.    *)
C13_RemoveItemIdempotent ==
  \A u \in Users, sku \in AllSkus :
     LET r == remove_cart_item(DB, u, sku)
         again == remove_cart_item(r.db, u, sku)
         cart == CARTS[u]
     IN /\ r.status = 200
        /\ again.status = 200
        /\ again.db = r.db
        /\ sku \notin CartSkus(cart) => r.db = DB
        /\ sku \in CartSkus(cart) =>
              /\ \E i \in 1..Len(cart) :
                    /\ cart[i].sku = sku
                    /\ r.db.CARTS[u] =
                         SubSeq(cart, 1, i - 1) \o SubSeq(cart, i + 1, Len(cart))
              /\ [r.db EXCEPT !.CARTS[u] = cart] = DB

(* A cart of two entries next to another user's cart, a recorded           *)
(* transaction, and a SKU the cart does not hold.                          *)
C13_Witness ==
  \E u \in Users, w \in Users, sku \in AllSkus :
     /\ u # w
     /\ Len(CARTS[u]) = 2
     /\ CARTS[w] # <<>>
     /\ sku \notin CartSkus(CARTS[u])
     /\ Recorded # {}
     /\ remove_cart_item(DB, u, CARTS[u][1].sku).db.CARTS[u] = <<CARTS[u][2]>>

(* C14: across every step each user's log keeps the transactions it held,  *)
(* unchanged and in place, and only grows at the end, whichever of         *)
(* update_product, delete_product, adjust_stock, the cart operations and   *)
(* checkout the step is.                                                   *)
C14_LogAppendOnly ==
  [][\A u \in Users :
       /\ Len(TRANSACTIONS_BY_USER'[u]) >= Len(TRANSACTIONS_BY_USER[u])
       /\ SubSeq(TRANSACTIONS_BY_USER'[u], 1, Len(TRANSACTIONS_BY_USER[u]))
            = TRANSACTIONS_BY_USER[u]]_vars

(* A log of two transactions: since the first was recorded the product's   *)
(* name and the variant's price have changed, and the second holds the new *)
(* ones.                                                                   *)
C14_Witness ==
  \E u \in Users :
     LET log == TRANSACTIONS_BY_USER[u]
     IN /\ Len(log) = 2
        /\ log[1].items[1].sku = log[2].items[1].sku
        /\ log[1].items[1].name # log[2].items[1].name
        /\ log[1].items[1].unit_price # log[2].items[1].unit_price
        /\ find_variant(DB, log[1].items[1].sku).status = 404

(* C15: cart_view succeeds when every SKU of the cart resolves, and then   *)
(* returns one line per cart entry, in order, with the entry's quantity,   *)
(* the variant's current price and line_subtotal = price * quantity, and   *)
(* the sum of the lines as subtotal; an update_product that replaces the   *)
(* variants leaves the carts as they were, and the view then shows, for a  *)
(* SKU the request gives a new price, that price with the old quantity.    *)
C15_ViewUsesCurrentPrice ==
  /\ \A u \in Users :
        LET cart == CARTS[u]
            v == cart_view(DB, u)
        IN /\ (\A i \in 1..Len(cart) : find_variant(DB, cart[i].sku).status = 200)
                => v.status = 200
           /\ v.status = 200 =>
                 /\ Len(v.items) = Len(cart)
                 /\ \A i \in 1..Len(cart) :
                       /\ v.items[i].sku = cart[i].sku
                       /\ v.items[i].quantity = cart[i].qty
                       /\ v.items[i].unit_price = PriceOf(DB, cart[i].sku)
                       /\ v.items[i].line_subtotal =
                            PriceOf(DB, cart[i].sku) * cart[i].qty
                 /\ v.subtotal =
                      SeqSum([i \in 1..Len(cart) |->
                                PriceOf(DB, cart[i].sku) * cart[i].qty])
  /\ \A id \in ProductIds, data \in RestockUpdates(Sizes, Prices) :
        LET r == update_product(DB, id, data)
            vcs == Get(data.variants)
            Sku(k) == make_sku(id, vcs[k].size, vcs[k].color)
        IN r.status = 200 =>
             /\ r.db.CARTS = CARTS
             /\ \A u \in Users :
                   LET v2 == cart_view(r.db, u)
                   IN v2.status = 200 =>
                        \A i \in 1..Len(CARTS[u]), k \in 1..Len(vcs) :
                           ( /\ Sku(k) = CARTS[u][i].sku
                             /\ \A k2 \in (k + 1)..Len(vcs) : Sku(k2) # Sku(k) )
                           => /\ v2.items[i].unit_price = vcs[k].price
                              /\ v2.items[i].quantity = CARTS[u][i].qty
                              /\ v2.items[i].line_subtotal =
                                   vcs[k].price * CARTS[u][i].qty

(* A cart of two lines, one of two units, whose view succeeds with a price *)
(* other than the seed's for the seed's SKU, and a request that changes    *)
(* that line's price again.                                                *)
C15_Witness ==
  \E u \in Users :
     LET v == cart_view(DB, u)
     IN /\ v.status = 200
        /\ Len(v.items) = 2
        /\ \E i \in 1..2 :
              /\ v.items[i].sku = make_sku(1, "s", "biru")
              /\ v.items[i].quantity = 2
              /\ v.items[i].unit_price # SeedPrice["s"]
              /\ v.subtotal > v.items[i].line_subtotal
              /\ \E data \in RestockUpdates(Sizes, Prices) :
                    LET v2 == cart_view(update_product(DB, 1, data).db, u)
                    IN /\ v2.status = 200
                       /\ v2.items[i].unit_price # v.items[i].unit_price

(* C16: promos are stored under their uppercased code, one per code        *)
(* ignoring case; create_promo with a code equal, ignoring case, to a      *)
(* stored promo's code returns 400 and changes nothing, and otherwise adds *)
(* the promo under the uppercased code; get_promo and checkout resolve a   *)
(* code in any case to the promo stored under its uppercased code; and no  *)
(* step changes or removes a stored promo.                                 *)
C16_PromosUniqueAndImmutable ==
  /\ [](/\ \A c \in DOMAIN PROMOS : upper(c) = c /\ PROMOS[c].code = c
        /\ \A data \in PromoCreates :
              LET r == create_promo(DB, data)
                  code == upper(data.code)
              IN IF \E c \in DOMAIN PROMOS : upper(c) = upper(data.code)
                 THEN r.status = 400 /\ r.db = DB
                 ELSE /\ r.status = 200
                      /\ DOMAIN r.db.PROMOS = (DOMAIN PROMOS) \cup {code}
                      /\ r.db.PROMOS[code].code = code
                      /\ r.db.PROMOS[code].discount_percent = data.discount_percent
                      /\ \A c \in DOMAIN PROMOS : r.db.PROMOS[c] = PROMOS[c]
                      /\ [r.db EXCEPT !.PROMOS = PROMOS] = DB
        /\ \A code \in CodeInputs :
              /\ IF upper(code) \in DOMAIN PROMOS
                 THEN /\ get_promo(DB, code).status = 200
                      /\ get_promo(DB, code).promo = Some(PROMOS[upper(code)])
                 ELSE get_promo(DB, code).status = 404
              /\ \A u \in Users :
                    LET r == checkout(DB, u, Some(code))
                    IN /\ r = checkout(DB, u, Some(upper(code)))
                       /\ r.status = 200 =>
                             /\ upper(code) \in DOMAIN PROMOS
                             /\ LastOf(r.db.TRANSACTIONS_BY_USER[u]).promo_code
                                  = Some(upper(code)))
  /\ [][\A c \in DOMAIN PROMOS :
          c \in DOMAIN PROMOS' /\ PROMOS'[c] = PROMOS[c]]_vars

(* A promo is stored and a checkout has used it; a second create_promo     *)
(* with its code in lower case is refused, and a cart is ready for         *)
(* a checkout that names the code in lower case.                           *)
C16_Witness ==
  /\ "DUO" \in DOMAIN PROMOS
  /\ \E tx \in Recorded : tx.promo_code = Some("DUO")
  /\ \A data \in PromoCreates : create_promo(DB, data).status = 400
  /\ get_promo(DB, "duo").status = 200
  /\ \E u \in Users : checkout(DB, u, Some("duo")).status = 200

(* C17: update_product without variants returns 200 for a stored product   *)
(* and replaces the name when one is given and the description when one is *)
(* given, each alone, leaving the product's id and variants, the index,    *)
(* the carts, the other products and every other store as they were; on an *)
(* id that is not stored update_product returns 404, whatever the request, *)
(* and changes nothing.                                                    *)
C17_UpdateNameDescriptionOnly ==
  \A id \in ProductIds :
     IF id \notin DOMAIN PRODUCTS
     THEN \A data \in ProductUpdates(NewTexts, {"s"}, {100}) :
             /\ update_product(DB, id, data).status = 404
             /\ update_product(DB, id, data).db = DB
     ELSE \A name \in Optional(NewTexts), description \in Optional(NewTexts) :
             LET data == [name |-> name, description |-> description,
                          variants |-> None]
                 r == update_product(DB, id, data)
                 old == PRODUCTS[id]
                 new == r.db.PRODUCTS[id]
             IN /\ r.status = 200
                /\ new.name = IF name = None THEN old.name ELSE Get(name)
                /\ new.description =
                     IF description = None THEN old.description ELSE description
                /\ new.id = old.id
                /\ new.variants = old.variants
                /\ DOMAIN r.db.PRODUCTS = DOMAIN PRODUCTS
                /\ \A p \in (DOMAIN PRODUCTS) \ {id} : r.db.PRODUCTS[p] = PRODUCTS[p]
                /\ r.db.SKU_TO_PRODUCT = SKU_TO_PRODUCT
                /\ r.db.CARTS = CARTS
                /\ [r.db EXCEPT !.PRODUCTS = PRODUCTS] = DB

(* Two products with variants and a cart that holds a SKU of each: one     *)
(* has a new name and its first description, the other a new description   *)
(* and its first name.                                                     *)
C17_Witness ==
  \E id \in DOMAIN PRODUCTS, p \in DOMAIN PRODUCTS, u \in Users :
     /\ id # p
     /\ PRODUCTS[id].name \in NewTexts
     /\ PRODUCTS[id].description \cap NewTexts = {}
     /\ PRODUCTS[p].name \in Names
     /\ PRODUCTS[p].description \cap NewTexts # {}
     /\ PRODUCTS[id].variants # <<>> /\ PRODUCTS[p].variants # <<>>
     /\ Len(CARTS[u]) = 2
     /\ \A i \in 1..2 : find_variant(DB, CARTS[u][i].sku).status = 200

(* C18: a product id is below the counter, the counter never goes back and *)
(* a step stores no product under an id other than the counter's; so from  *)
(* the step that deletes a product on, in every later state, get_product   *)
(* on its id and find_variant on each of its SKUs return 404.              *)
C18_DeletedStaysDeleted ==
  /\ [](\A id \in DOMAIN PRODUCTS : id < next_product_id)
  /\ [][/\ next_product_id' \in {next_product_id, next_product_id + 1}
        /\ (DOMAIN PRODUCTS') \ (DOMAIN PRODUCTS) \subseteq {next_product_id}
        /\ \A id \in ProductIds :
              LET deleted_now == id \in DOMAIN PRODUCTS /\ id \notin DOMAIN PRODUCTS'
                  gone_before == id < next_product_id /\ id \notin DOMAIN PRODUCTS
              IN (deleted_now \/ gone_before) =>
                   /\ get_product(DB', id).status = 404
                   /\ \A size \in Sizes, color \in Colors :
                         find_variant(DB', make_sku(id, size, color)).status = 404
                   /\ deleted_now =>
                         \A sku \in ProductSkus(DB, id) :
                            find_variant(DB', sku).status = 404]_vars

(* The seeded product has been deleted and no other is stored; the next    *)
(* add_product stores its product under id 2, and the SKUs of product 1    *)
(* stay unknown.                                                           *)
C18_Witness ==
  /\ PRODUCTS = EmptyDict
  /\ next_product_id = 2
  /\ \E data \in ProductCreates({"s"}, {100}) :
        LET r == add_product(DB, data)
        IN /\ r.status = 200
           /\ DOMAIN r.db.PRODUCTS = {2}
           /\ find_variant(r.db, make_sku(1, "s", "biru")).status = 404
           /\ find_variant(r.db, make_sku(2, "s", "biru")).status = 200

(* C19: with checkout calls running pass by pass on two threads, a call    *)
(* that ends has either deducted no stock or recorded its transaction and  *)
(* cleared its cart.                                                       *)
C19_NoPartialCheckout ==
  [][\A u \in Users :
       (inflight[u].pc # "idle" /\ inflight'[u].pc = "idle") =>
          \/ inflight[u].deducted = 0
          \/ /\ inflight[u].pc = "recorded"
             /\ CARTS'[u] = <<>>
             /\ Len(TRANSACTIONS_BY_USER'[u]) > 0]_vars

(* C20: every index entry sku -> (product id, position) names a stored     *)
(* product and a position of its variant list whose variant has that SKU,  *)
(* and every variant of every stored product is at the very place its      *)
(* SKU's index entry names.                                                *)
C20_IndexConsistent ==
  /\ \A sku \in DOMAIN SKU_TO_PRODUCT :
        LET entry == SKU_TO_PRODUCT[sku]
        IN /\ entry[1] \in DOMAIN PRODUCTS
           /\ entry[2] \in 1..Len(PRODUCTS[entry[1]].variants)
           /\ PRODUCTS[entry[1]].variants[entry[2]].sku = sku
  /\ \A slot \in Slots(DB) :
        /\ VariantAt(DB, slot).sku \in DOMAIN SKU_TO_PRODUCT
        /\ SKU_TO_PRODUCT[VariantAt(DB, slot).sku] = slot

(* C21: for a SKU that resolves, adjust_stock returns 400 and changes      *)
(* nothing when the stock find_variant reports plus delta is negative;     *)
(* otherwise it returns 200, the variant find_variant returns has its      *)
(* earlier stock plus delta and is otherwise as it was, every other        *)
(* variant and every other store is unchanged, and the value returned is   *)
(* the stock find_variant reports afterward.                               *)
C21_AdjustStockContract ==
  \A sku \in AllSkus, delta \in Deltas :
     LET r == adjust_stock(DB, sku, delta)
         at == SKU_TO_PRODUCT[sku]
     IN find_variant(DB, sku).status = 200 =>
          IF StockOf(DB, sku) + delta < 0
          THEN r.status = 400 /\ r.db = DB
          ELSE /\ r.status = 200
               /\ find_variant(r.db, sku).status = 200
               /\ StockOf(r.db, sku) = StockOf(DB, sku) + delta
               /\ r.new_stock = StockOf(r.db, sku)
               /\ Slots(r.db) = Slots(DB)
               /\ \A slot \in Slots(DB) :
                     IF slot = at
                     THEN [VariantAt(r.db, slot) EXCEPT !.stock = StockOf(DB, sku)]
                            = VariantAt(DB, slot)
                     ELSE VariantAt(r.db, slot) = VariantAt(DB, slot)
               /\ [r.db EXCEPT !.PRODUCTS = PRODUCTS].SKU_TO_PRODUCT = SKU_TO_PRODUCT
               /\ [r.db EXCEPT !.PRODUCTS = PRODUCTS] = DB

(* C22: the recorded transactions carry the ids 1 to n, n the number       *)
(* recorded over all users, each once, and in a user's log the ids grow    *)
(* with the position; a checkout that succeeds records the id n + 1 and a  *)
(* checkout that fails leaves the id counter as it was.                    *)
C22_TxIdsSequential ==
  /\ {tx.id : tx \in Recorded} = 1..(next_tx_id - 1)
  /\ Cardinality({<<u, i>> \in Users \X (1..MaxTx) :
                    i <= Len(TRANSACTIONS_BY_USER[u])}) = next_tx_id - 1
  /\ \A u \in Users : Len(TRANSACTIONS_BY_USER[u]) <= MaxTx
  /\ \A u \in Users :
        \A i \in 1..Len(TRANSACTIONS_BY_USER[u]), j \in 1..Len(TRANSACTIONS_BY_USER[u]) :
           i < j => TRANSACTIONS_BY_USER[u][i].id < TRANSACTIONS_BY_USER[u][j].id
  /\ \A u \in Users, code \in Optional(CodeInputs) :
        LET r == checkout(DB, u, code)
        IN IF r.status = 200
           THEN /\ LastOf(r.db.TRANSACTIONS_BY_USER[u]).id = next_tx_id
                /\ r.db.next_tx_id = next_tx_id + 1
           ELSE r.db.next_tx_id = next_tx_id

(* The two users hold one transaction each, with the ids 1 and 2, and a    *)
(* cart whose checkout fails is at hand.                                   *)
C22_Witness ==
  \E u \in Users, w \in Users :
     /\ u # w
     /\ Len(TRANSACTIONS_BY_USER[u]) = 1 /\ TRANSACTIONS_BY_USER[u][1].id = 1
     /\ Len(TRANSACTIONS_BY_USER[w]) = 1 /\ TRANSACTIONS_BY_USER[w][1].id = 2
     /\ next_tx_id = 3
     /\ \E x \in Users : CARTS[x] # <<>> /\ checkout(DB, x, None).status # 200

====
